---- MODULE Spec2Model ----
(***************************************************************************)
(* Model of src-tauri/src/main.rs: the six tauri commands of the desktop   *)
(* environment adapter, run as concurrent tasks of the host shell.         *)
(*                                                                         *)
(* The external collaborators (the screenshots crate, the image crate's    *)
(* PNG codec, the operating system's process launcher) are modelled as     *)
(* nondeterministic choices over the values their return types admit.      *)
(***************************************************************************)
EXTENDS Integers, Sequences, FiniteSets, TLC

\* ---------------------------------------------------------------- bounds
NumTasks == 2        \* commands in flight at the same time
MaxDim == 1          \* largest width / height a display or an image reports
MaxScreens == 2      \* longest list Screen::all() returns
MaxSlack == 1        \* how far a raw buffer's length may be from width*height*4

Tasks == 1..NumTasks
Dims == 0..MaxDim

\* ------------------------------------------------------- values and types
None == <<>>
Some(x) == <<x>>
IsSome(o) == Len(o) = 1
Unwrap(o) == o[1]

Ok(v) == [tag |-> "Ok", val |-> Some(v), err |-> None]
Err(e) == [tag |-> "Err", val |-> None, err |-> Some(e)]
IsOk(r) == r.tag = "Ok"

Commands ==
    { "desktop_env_screenshot", "desktop_env_system_info", "desktop_env_status",
      "desktop_env_init", "request_screen_recording_permission",
      "request_accessibility_permission" }

Platforms == { "macos", "linux", "windows" }

\* the text an external failure displays as ({} in the format! calls)
ProviderErrors == { "provider error" }


\* ------------------------------------------------- the external provider
\* screen.display_info: the logical size the display reports
DisplayInfos == [ width : Dims, height : Dims ]

ScreenLists == UNION { [ 1..n -> DisplayInfos ] : n \in 0..MaxScreens }

\* Screen::all()
ScreenAllResults == { Err(e) : e \in ProviderErrors } \cup { Ok(s) : s \in ScreenLists }

\* the bytes of a captured frame; the pixel values play no part in the commands
RawData(n) == [ i \in 1..n |-> (i * 37) % 256 ]

RawLens(w, h) == { n \in (w * h * 4 - MaxSlack)..(w * h * 4 + MaxSlack) : n >= 0 }

Images ==
    { [ width |-> d[1], height |-> d[2], raw |-> RawData(d[3]) ] :
        d \in { e \in Dims \X Dims \X (0..(MaxDim * MaxDim * 4 + MaxSlack)) :
                    e[3] \in RawLens(e[1], e[2]) } }

\* screen.capture()
CaptureResults == { Err(e) : e \in ProviderErrors } \cup { Ok(i) : i \in Images }

\* Command::new(..).output(): the utility could not be started, or it ran and
\* exited with a status
OutputResults ==
    { Err(e) : e \in ProviderErrors } \cup { Ok([ success |-> b ]) : b \in BOOLEAN }

\* ------------------------------------------------------------ image crate
\* mutant: only a container of exactly width * height * 4 bytes is accepted
from_raw_Exact(width, height, buf) ==
    IF width * height * 4 = Len(buf)
      THEN Some([ width |-> width, height |-> height, data |-> buf ])
      ELSE None

\* ImageBuffer::from_raw(width, height, buf): None when the container is not
\* big enough for width * height pixels of four bytes
from_raw(width, height, buf) ==
    IF width * height * 4 <= Len(buf)
      THEN Some([ width |-> width, height |-> height, data |-> buf ])
      ELSE None

U32BE(n) ==
    << (n \div 16777216) % 256, (n \div 65536) % 256, (n \div 256) % 256, n % 256 >>

FromU32BE(b) == b[1] * 16777216 + b[2] * 65536 + b[3] * 256 + b[4]

PngSignature == << 137, 80, 78, 71, 13, 10, 26, 10 >>
IhdrLength == << 0, 0, 0, 13 >>
IhdrType == << 73, 72, 68, 82 >>
\* bit depth 8, colour type 6 (RGBA), compression 0, filter 0, no interlace
IhdrRgba8 == << 8, 6, 0, 0, 0 >>

\* mutant: the header is written with height and width exchanged
PngEncode_Swapped(img) ==
    PngSignature \o IhdrLength \o IhdrType
        \o U32BE(img.height) \o U32BE(img.width) \o IhdrRgba8
        \o SubSeq(img.data, 1, img.width * img.height * 4)

\* img_buffer.write_to(.., ImageFormat::Png): the signature, the IHDR chunk with
\* the buffer's width and height, and the width * height * 4 bytes of its pixels
\* (the image data is kept uncompressed and the checksums are left out)
PngEncode(img) ==
    PngSignature \o IhdrLength \o IhdrType
        \o U32BE(img.width) \o U32BE(img.height) \o IhdrRgba8
        \o SubSeq(img.data, 1, img.width * img.height * 4)

IsPng(b) ==
    /\ Len(b) >= 29
    /\ SubSeq(b, 1, 8) = PngSignature
    /\ SubSeq(b, 13, 16) = IhdrType
PngWidth(b) == FromU32BE(SubSeq(b, 17, 20))
PngHeight(b) == FromU32BE(SubSeq(b, 21, 24))

\* ----------------------------------------------------------- base64 crate
\* a symbol k in 0..63 stands for the k-th character of the standard alphabet
Pad == 64

RECURSIVE Base64Encode(_)
\* general_purpose::STANDARD.encode
Base64Encode(b) ==
    IF Len(b) = 0 THEN << >>
    ELSE IF Len(b) = 1 THEN
        << b[1] \div 4, (b[1] % 4) * 16, Pad, Pad >>
    ELSE IF Len(b) = 2 THEN
        << b[1] \div 4, (b[1] % 4) * 16 + b[2] \div 16, (b[2] % 16) * 4, Pad >>
    ELSE
        << b[1] \div 4, (b[1] % 4) * 16 + b[2] \div 16,
           (b[2] % 16) * 4 + b[3] \div 64, b[3] % 64 >>
            \o Base64Encode(SubSeq(b, 4, Len(b)))

RECURSIVE Base64Decode(_)
\* general_purpose::STANDARD.decode, on well-formed input
Base64Decode(s) ==
    IF Len(s) < 4 THEN << >>
    ELSE
        LET b1 == s[1] * 4 + s[2] \div 16
            b2 == (s[2] % 16) * 16 + s[3] \div 4
            b3 == (s[3] % 4) * 64 + s[4]
        IN  IF s[3] = Pad THEN << b1 >>
            ELSE IF s[4] = Pad THEN << b1, b2 >>
            ELSE << b1, b2, b3 >> \o Base64Decode(SubSeq(s, 5, Len(s)))

VARIABLES
    initialized,   \* AppState.initialized: the value inside the Mutex
    lockHolder,    \* the task holding the MutexGuard, 0 when the mutex is free
    poisoned,      \* the Mutex's poison flag
    platform,      \* std::env::consts::OS / cfg(target_os) of the build
    task           \* per task: the command it runs and that command's locals

vars == << initialized, lockHolder, poisoned, platform, task >>

IdleTask ==
    [ pc |-> "idle", cmd |-> "none",
      initAtCall |-> FALSE,   \* history: the flag's value when the command was invoked
      screen |-> None,        \* the first Screen's display_info
      image |-> None,         \* what screen.capture() returned
      img_buffer |-> None,    \* what ImageBuffer::from_raw returned
      png_bytes |-> << >>,
      inner |-> None,         \* take_screenshot_internal's Result
      output |-> None,        \* std::process::Output of the spawned utility
      steps |-> << >>,        \* history: the calls this invocation made, and how each ended
      ret |-> None ]          \* what the command returned to the host shell

Init ==
    /\ initialized = FALSE
    /\ lockHolder = 0
    /\ poisoned = FALSE
    /\ platform \in Platforms
    /\ task = [ t \in Tasks |-> IdleTask ]

\* the host shell dispatches command c to task t
Invoke(t, c) ==
    /\ task[t].pc = "idle"
    /\ task' = [ task EXCEPT ![t] = [ IdleTask EXCEPT !.pc = c, !.cmd = c,
                                                     !.initAtCall = initialized ] ]
    /\ UNCHANGED << initialized, lockHolder, poisoned, platform >>

\* the host shell takes the task's result; the task is free for the next command
Complete(t) ==
    /\ task[t].pc = "done"
    /\ task' = [ task EXCEPT ![t] = IdleTask ]
    /\ UNCHANGED << initialized, lockHolder, poisoned, platform >>

Return(t, r) == [ task[t] EXCEPT !.pc = "done", !.ret = Some(r) ]
Panic(t) == [ task[t] EXCEPT !.pc = "panicked" ]

\* ------------------------------------------------------ desktop_env_status
StatusText == << "Desktop environment is available" >>
InitText == << "Desktop environment initialized" >>

\* mutant: the status text depends on the flag
desktop_env_status_ReadsFlag(t) ==
    /\ task[t].pc = "desktop_env_status"
    /\ task' = [ task EXCEPT ![t] =
          Return(t, Ok(IF initialized THEN InitText ELSE StatusText)) ]
    /\ UNCHANGED << initialized, lockHolder, poisoned, platform >>

desktop_env_status(t) ==
    /\ task[t].pc = "desktop_env_status"
    /\ task' = [ task EXCEPT ![t] = Return(t, Ok(StatusText)) ]
    /\ UNCHANGED << initialized, lockHolder, poisoned, platform >>

\* -------------------------------------------------------- desktop_env_init
\* mutant: the flag is reached without waiting for the mutex
InitLock_NoExclusion(t) ==
    /\ task[t].pc = "desktop_env_init"
    /\ lockHolder' = t
    /\ task' = [ task EXCEPT ![t].pc = "init_write" ]
    /\ UNCHANGED << initialized, poisoned, platform >>

\* state.initialized.lock().unwrap(): blocks while another task holds the
\* guard; unwrap panics when the mutex is poisoned
InitLock(t) ==
    /\ task[t].pc = "desktop_env_init"
    /\ lockHolder = 0
    /\ IF poisoned
         THEN /\ task' = [ task EXCEPT ![t] = Panic(t) ]
              /\ UNCHANGED lockHolder
         ELSE /\ lockHolder' = t
              /\ task' = [ task EXCEPT ![t].pc = "init_write" ]
    /\ UNCHANGED << initialized, poisoned, platform >>

\* mutant: the flag is toggled instead of set
InitWrite_Toggles(t) ==
    /\ task[t].pc = "init_write"
    /\ lockHolder = t
    /\ initialized' = ~initialized
    /\ task' = [ task EXCEPT ![t].pc = "init_return" ]
    /\ UNCHANGED << lockHolder, poisoned, platform >>

\* *initialized = true
InitWrite(t) ==
    /\ task[t].pc = "init_write"
    /\ lockHolder = t
    /\ initialized' = TRUE
    /\ task' = [ task EXCEPT ![t].pc = "init_return" ]
    /\ UNCHANGED << lockHolder, poisoned, platform >>

\* Ok(..) is built, the guard goes out of scope and the mutex is released
InitReturn(t) ==
    /\ task[t].pc = "init_return"
    /\ lockHolder = t
    /\ lockHolder' = 0
    /\ task' = [ task EXCEPT ![t] = Return(t, Ok(InitText)) ]
    /\ UNCHANGED << initialized, poisoned, platform >>

\* -------------------------------------------------- desktop_env_screenshot
\* (the println! of line 30 writes a log line; it is taken to succeed and it
\* changes nothing a command reads)
Step(t, call, outcome) == Append(task[t].steps, [ call |-> call, outcome |-> outcome ])
Fail(t, call, outcome, msg) ==
    [ task[t] EXCEPT !.pc = "shot_return", !.inner = Some(Err(msg)),
                     !.steps = Step(t, call, outcome) ]

\* mutant: an empty display list is not an error and the capture goes ahead
ScreenAll_IgnoresEmpty(t) ==
    /\ task[t].pc = "desktop_env_screenshot"
    /\ \E r \in ScreenAllResults :
         task' = [ task EXCEPT ![t] =
            IF ~IsOk(r)
              THEN Fail(t, "Screen::all", "error", << "Failed to get screens: ", Unwrap(r.err) >>)
            ELSE IF Unwrap(r.val) = << >>
              THEN [ task[t] EXCEPT !.pc = "capture",
                                    !.steps = Step(t, "Screen::all", "empty") ]
            ELSE [ task[t] EXCEPT !.pc = "capture",
                                  !.screen = Some(Head(Unwrap(r.val))),
                                  !.steps = Step(t, "Screen::all", "ok") ] ]
    /\ UNCHANGED << initialized, lockHolder, poisoned, platform >>

\* let screens = Screen::all()..?; let screen = screens.into_iter().next()..?
ScreenAll(t) ==
    /\ task[t].pc = "desktop_env_screenshot"
    /\ \E r \in ScreenAllResults :
         task' = [ task EXCEPT ![t] =
            IF ~IsOk(r)
              THEN Fail(t, "Screen::all", "error", << "Failed to get screens: ", Unwrap(r.err) >>)
            ELSE IF Unwrap(r.val) = << >>
              THEN Fail(t, "Screen::all", "empty", << "No screen found" >>)
            ELSE [ task[t] EXCEPT !.pc = "capture",
                                  !.screen = Some(Head(Unwrap(r.val))),
                                  !.steps = Step(t, "Screen::all", "ok") ] ]
    /\ UNCHANGED << initialized, lockHolder, poisoned, platform >>

\* let image = screen.capture()..?
Capture(t) ==
    /\ task[t].pc = "capture"
    /\ \E r \in CaptureResults :
         task' = [ task EXCEPT ![t] =
            IF ~IsOk(r)
              THEN Fail(t, "capture", "error", << "Failed to capture screen: ", Unwrap(r.err) >>)
            ELSE [ task[t] EXCEPT !.pc = "from_raw", !.image = r.val,
                                  !.steps = Step(t, "capture", "ok") ] ]
    /\ UNCHANGED << initialized, lockHolder, poisoned, platform >>

\* ImageBuffer::from_raw(width, height, raw_data).ok_or(..)?
FromRaw(t) ==
    /\ task[t].pc = "from_raw"
    /\ LET image == Unwrap(task[t].image)
           b == from_raw(image.width, image.height, image.raw)
       IN  task' = [ task EXCEPT ![t] =
              IF ~IsSome(b)
                THEN Fail(t, "from_raw", "none", << "Failed to create image buffer" >>)
              ELSE [ task[t] EXCEPT !.pc = "write_to", !.img_buffer = b,
                                    !.steps = Step(t, "from_raw", "ok") ] ]
    /\ UNCHANGED << initialized, lockHolder, poisoned, platform >>

\* img_buffer.write_to(&mut cursor, ImageFormat::Png)..?: the codec writes the
\* PNG or reports an error
WriteTo(t) ==
    /\ task[t].pc = "write_to"
    /\ \E r \in { Err(e) : e \in ProviderErrors }
                    \cup { Ok(PngEncode(Unwrap(task[t].img_buffer))) } :
         task' = [ task EXCEPT ![t] =
            IF ~IsOk(r)
              THEN Fail(t, "write_to", "error", << "Failed to encode PNG: ", Unwrap(r.err) >>)
            ELSE [ task[t] EXCEPT !.pc = "encode", !.png_bytes = Unwrap(r.val),
                                  !.steps = Step(t, "write_to", "ok") ] ]
    /\ UNCHANGED << initialized, lockHolder, poisoned, platform >>

\* let base64_data = general_purpose::STANDARD.encode(&png_bytes); Ok(base64_data)
Encode(t) ==
    /\ task[t].pc = "encode"
    /\ task' = [ task EXCEPT ![t] =
          [ task[t] EXCEPT !.pc = "shot_return",
                           !.inner = Some(Ok(Base64Encode(task[t].png_bytes))),
                           !.steps = Step(t, "encode", "ok") ] ]
    /\ UNCHANGED << initialized, lockHolder, poisoned, platform >>

\* mutant: the failure arm fills screenshot_data with an empty text
ScreenshotResult_DataOnFailure(inner) ==
    IF IsOk(inner)
      THEN [ success |-> TRUE, screenshot_data |-> inner.val, error |-> None ]
      ELSE [ success |-> FALSE, screenshot_data |-> Some(<< >>), error |-> inner.err ]

\* the match of desktop_env_screenshot on take_screenshot_internal's result
ScreenshotResult(inner) ==
    IF IsOk(inner)
      THEN [ success |-> TRUE, screenshot_data |-> inner.val, error |-> None ]
      ELSE [ success |-> FALSE, screenshot_data |-> None, error |-> inner.err ]

\* mutant: the failure is propagated with ? instead of being wrapped
ShotReturn_Propagates(t) ==
    /\ task[t].pc = "shot_return"
    /\ task' = [ task EXCEPT ![t] =
          IF IsOk(Unwrap(task[t].inner))
            THEN Return(t, Ok(ScreenshotResult(Unwrap(task[t].inner))))
            ELSE Return(t, Err(Unwrap(Unwrap(task[t].inner).err))) ]
    /\ UNCHANGED << initialized, lockHolder, poisoned, platform >>

ShotReturn(t) ==
    /\ task[t].pc = "shot_return"
    /\ task' = [ task EXCEPT ![t] =
                    Return(t, Ok(ScreenshotResult(Unwrap(task[t].inner)))) ]
    /\ UNCHANGED << initialized, lockHolder, poisoned, platform >>

\* ------------------------------------------------- desktop_env_system_info
\* mutant: width and height are exchanged
SystemInfo_Swapped(screen) ==
    [ platform |-> platform,
      screen_width |-> screen.height,
      screen_height |-> screen.width ]

SystemInfo(screen) ==
    [ platform |-> platform,
      screen_width |-> screen.width,
      screen_height |-> screen.height ]

desktop_env_system_info(t) ==
    /\ task[t].pc = "desktop_env_system_info"
    /\ \E r \in ScreenAllResults :
         task' = [ task EXCEPT ![t] =
            IF ~IsOk(r)
              THEN [ Return(t, Err(<< "Failed to get screens: ", Unwrap(r.err) >>))
                       EXCEPT !.steps = Step(t, "Screen::all", "error") ]
            ELSE IF Unwrap(r.val) = << >>
              THEN [ Return(t, Err(<< "No screen found" >>))
                       EXCEPT !.steps = Step(t, "Screen::all", "empty") ]
            ELSE [ Return(t, Ok(SystemInfo(Head(Unwrap(r.val)))))
                     EXCEPT !.screen = Some(Head(Unwrap(r.val))),
                            !.steps = Step(t, "Screen::all", "ok") ] ]
    /\ UNCHANGED << initialized, lockHolder, poisoned, platform >>

\* ---------------------------------------------------- permission commands
\* cfg(target_os = "macos"): Command::new(program).args(..).output()..?
PermSpawn(t, c, program, msg) ==
    /\ task[t].pc = c
    /\ platform = "macos"
    /\ \E r \in OutputResults :
         task' = [ task EXCEPT ![t] =
            IF ~IsOk(r)
              THEN [ Return(t, Err(<< msg, Unwrap(r.err) >>))
                       EXCEPT !.steps = Step(t, program, "error") ]
            ELSE [ task[t] EXCEPT !.pc = "output_status", !.output = r.val,
                                  !.steps = Step(t, program, "ok") ] ]
    /\ UNCHANGED << initialized, lockHolder, poisoned, platform >>

\* if !output.status.success() { return Err(..) } return Ok(true)
PermStatus(t, c, msg) ==
    /\ task[t].pc = "output_status"
    /\ task[t].cmd = c
    /\ task' = [ task EXCEPT ![t] =
          IF ~Unwrap(task[t].output).success
            THEN Return(t, Err(<< msg >>))
            ELSE Return(t, Ok(TRUE)) ]
    /\ UNCHANGED << initialized, lockHolder, poisoned, platform >>

\* mutant: the branch for the other platforms reports the permission as missing
PermNotRequired_Denies(t, c) ==
    /\ task[t].pc = c
    /\ platform # "macos"
    /\ task' = [ task EXCEPT ![t] = Return(t, Ok(FALSE)) ]
    /\ UNCHANGED << initialized, lockHolder, poisoned, platform >>

\* cfg(not(target_os = "macos")): Ok(true)
PermNotRequired(t, c) ==
    /\ task[t].pc = c
    /\ platform # "macos"
    /\ task' = [ task EXCEPT ![t] = Return(t, Ok(TRUE)) ]
    /\ UNCHANGED << initialized, lockHolder, poisoned, platform >>

request_screen_recording_permission(t) ==
    \/ PermSpawn(t, "request_screen_recording_permission", "system_profiler",
                 "Failed to check permission: ")
    \/ PermStatus(t, "request_screen_recording_permission",
                  "Failed to check screen recording permission")
    \/ PermNotRequired(t, "request_screen_recording_permission")

request_accessibility_permission(t) ==
    \/ PermSpawn(t, "request_accessibility_permission", "open",
                 "Failed to open accessibility settings: ")
    \/ PermStatus(t, "request_accessibility_permission",
                  "Failed to open accessibility settings")
    \/ PermNotRequired(t, "request_accessibility_permission")

desktop_env_screenshot(t) ==
    \/ ScreenAll(t)
    \/ Capture(t)
    \/ FromRaw(t)
    \/ WriteTo(t)
    \/ Encode(t)
    \/ ShotReturn(t)

desktop_env_init(t) ==
    \/ InitLock(t)
    \/ InitWrite(t)
    \/ InitReturn(t)

\* one step of the command that task t runs, or the hand-over of its result
CommandStep(t) ==
    \/ Complete(t)
    \/ desktop_env_screenshot(t)
    \/ desktop_env_system_info(t)
    \/ desktop_env_status(t)
    \/ desktop_env_init(t)
    \/ request_screen_recording_permission(t)
    \/ request_accessibility_permission(t)

\* the commands run as independent tasks, interleaved step by step
Next ==
    \E t \in Tasks :
        \/ \E c \in Commands : Invoke(t, c)
        \/ CommandStep(t)

Spec == Init /\ [][Next]_vars

\* the host shell dispatches a command only when no other command is in flight
SerialInvoke(t, c) ==
    /\ \A u \in Tasks \ { t } : task[u].pc = "idle"
    /\ Invoke(t, c)

SerialNext ==
    \E t \in Tasks :
        \/ \E c \in Commands : SerialInvoke(t, c)
        \/ CommandStep(t)

SerialSpec == Init /\ [][SerialNext]_vars

\* a started mark_initialized is not starved of the mutex, and the task that
\* holds the guard runs on to the end of the command: nothing awaits or blocks
\* between lock() and the return
Fairness ==
    \A t \in Tasks :
        /\ SF_vars(InitLock(t))
        /\ WF_vars(InitWrite(t))
        /\ WF_vars(InitReturn(t))

FairSpec == Spec /\ Fairness

\* ==================================================================== claims
Running(t, c) == task[t].cmd = c
Returned(t, c) == task[t].cmd = c /\ task[t].pc = "done"
Value(t) == Unwrap(Unwrap(task[t].ret).val)
Failed(t) == IsSome(task[t].inner) /\ ~IsOk(Unwrap(task[t].inner))
Calls(t) == [ i \in 1..Len(task[t].steps) |-> task[t].steps[i].call ]
LastStep(t) == task[t].steps[Len(task[t].steps)]

\* C1: desktop_env_screenshot never panics and never returns Err: whatever the
\* provider did, it returns Ok(ScreenshotResult), and a failure of
\* take_screenshot_internal is carried as the result's error text.
C1_AlwaysStructuredResult ==
    \A t \in Tasks : Running(t, "desktop_env_screenshot") =>
        /\ task[t].pc # "panicked"
        /\ task[t].pc = "done" =>
             /\ IsOk(Unwrap(task[t].ret))
             /\ Failed(t) =>
                  /\ Value(t).success = FALSE
                  /\ Value(t).error = Unwrap(task[t].inner).err

C1_Witness ==
    \E t \in Tasks :
        /\ Returned(t, "desktop_env_screenshot")
        /\ Failed(t)
        /\ LastStep(t) = [ call |-> "write_to", outcome |-> "error" ]
        /\ IsOk(Unwrap(task[t].ret))

\* C2: a returned ScreenshotResult has screenshot_data and no error when success
\* is true, and error and no screenshot_data when success is false.
C2_ExactlyOneField ==
    \A t \in Tasks : Returned(t, "desktop_env_screenshot") =>
        LET r == Value(t)
        IN  /\ r.success => IsSome(r.screenshot_data) /\ ~IsSome(r.error)
            /\ ~r.success => IsSome(r.error) /\ ~IsSome(r.screenshot_data)

C2_Witness ==
    \E t \in Tasks :
        /\ Returned(t, "desktop_env_screenshot")
        /\ Value(t).success
        /\ IsSome(Value(t).screenshot_data)

\* C3: the steps run in the order Screen::all, capture, from_raw, write_to,
\* encode; the first one that fails fixes the result and nothing runs after it;
\* an empty display list gives success = false with "No screen found" and
\* neither a capture nor an encoding step.
Pipeline == << "Screen::all", "capture", "from_raw", "write_to", "encode" >>

FailureText(step) ==
    CASE step.call = "Screen::all" /\ step.outcome = "error" -> "Failed to get screens: "
      [] step.call = "Screen::all" /\ step.outcome = "empty" -> "No screen found"
      [] step.call = "capture" -> "Failed to capture screen: "
      [] step.call = "from_raw" -> "Failed to create image buffer"
      [] step.call = "write_to" -> "Failed to encode PNG: "
      [] OTHER -> "none"

C3_StepsInOrderFirstFailureStops ==
    \A t \in Tasks : Running(t, "desktop_env_screenshot") =>
        LET n == Len(task[t].steps)
        IN  /\ Calls(t) = SubSeq(Pipeline, 1, n)
            /\ \A i \in 1..(n - 1) : task[t].steps[i].outcome = "ok"
            /\ n > 0 /\ LastStep(t).outcome # "ok" =>
                 /\ task[t].pc \in { "shot_return", "done" }
                 /\ Failed(t)
                 /\ Unwrap(Unwrap(task[t].inner).err)[1] = FailureText(LastStep(t))
            /\ Failed(t) => n > 0 /\ LastStep(t).outcome # "ok"
            /\ task[t].pc = "done" /\ ~Failed(t) => n = 5
            /\ n > 0 /\ task[t].steps[1].outcome = "empty" =>
                 /\ n = 1
                 /\ task[t].pc = "done" =>
                      /\ Value(t).success = FALSE
                      /\ Value(t).error = Some(<< "No screen found" >>)

C3_Witness ==
    \E t \in Tasks :
        /\ Returned(t, "desktop_env_screenshot")
        /\ task[t].steps = << [ call |-> "Screen::all", outcome |-> "empty" ] >>
        /\ Value(t).error = Some(<< "No screen found" >>)

\* C4 (as claimed): the PNG of a successful capture declares the width and
\* height that the first display's display_info reports.
Png(t) == Base64Decode(Unwrap(Value(t).screenshot_data))
Succeeded(t) == Returned(t, "desktop_env_screenshot") /\ Value(t).success

C4_PngMatchesDisplayInfo ==
    \A t \in Tasks : Succeeded(t) =>
        /\ PngWidth(Png(t)) = Unwrap(task[t].screen).width
        /\ PngHeight(Png(t)) = Unwrap(task[t].screen).height

\* C4 (amended): the returned text decodes to a PNG that declares the width and
\* height of the captured image (image.width(), image.height()), whatever the
\* display's display_info says.
C4_PngMatchesCapturedImage ==
    \A t \in Tasks : Succeeded(t) =>
        /\ IsPng(Png(t))
        /\ PngWidth(Png(t)) = Unwrap(task[t].image).width
        /\ PngHeight(Png(t)) = Unwrap(task[t].image).height

C4_Witness ==
    \E t \in Tasks :
        /\ Succeeded(t)
        /\ Unwrap(task[t].image).width # Unwrap(task[t].screen).width
        /\ Unwrap(task[t].image).width # Unwrap(task[t].image).height
        /\ PngWidth(Png(t)) = Unwrap(task[t].image).width

\* C5 (as claimed): once the buffer step has run, it has failed exactly when the
\* raw buffer's length differs from width * height * 4.
PastBufferStep(t) ==
    /\ Running(t, "desktop_env_screenshot")
    /\ Len(task[t].steps) >= 3
BufferStepFailed(t) ==
    /\ task[t].steps[3].outcome = "none"
    /\ task[t].inner = Some(Err(<< "Failed to create image buffer" >>))
Needed(t) == Unwrap(task[t].image).width * Unwrap(task[t].image).height * 4
RawLen(t) == Len(Unwrap(task[t].image).raw)

C5_FailsUnlessExactLength ==
    \A t \in Tasks : PastBufferStep(t) =>
        (BufferStepFailed(t) <=> RawLen(t) # Needed(t))

\* C5 (amended): the buffer step fails exactly when the raw buffer is shorter
\* than width * height * 4; a buffer of that length or a longer one passes.
C5_FailsOnlyWhenTooShort ==
    \A t \in Tasks : PastBufferStep(t) =>
        /\ BufferStepFailed(t) <=> RawLen(t) < Needed(t)
        /\ ~BufferStepFailed(t) => IsSome(task[t].img_buffer)

C5_Witness ==
    \E t \in Tasks :
        /\ PastBufferStep(t)
        /\ RawLen(t) > Needed(t)
        /\ ~BufferStepFailed(t)
        /\ IsSome(task[t].img_buffer)

\* C6: the flag starts false; desktop_env_init always returns Ok and leaves the
\* flag true, on a first call and on any later one; no step of any command turns
\* the flag from true to false.
InitSucceeded ==
    \A t \in Tasks : Running(t, "desktop_env_init") =>
        /\ task[t].pc # "panicked"
        /\ task[t].pc \in { "init_return", "done" } => initialized
        /\ task[t].pc = "done" => task[t].ret = Some(Ok(InitText))

C6_InitIdempotent ==
    /\ initialized = FALSE
    /\ []InitSucceeded
    /\ [][initialized => initialized']_vars

C6_Witness ==
    \E t \in Tasks :
        /\ Returned(t, "desktop_env_init")
        /\ task[t].initAtCall
        /\ task[t].ret = Some(Ok(InitText))
        /\ initialized

\* C7: a command other than desktop_env_init returns the same result for the
\* same provider responses whether the flag was false or true when it ran, and
\* the only step that changes the flag is the write of desktop_env_init.
Responses(t) ==
    << task[t].steps, task[t].screen, task[t].image, task[t].output >>

SameResultForSameResponses ==
    \A t, u \in Tasks :
        ( /\ task[t].pc = "done" /\ task[u].pc = "done"
          /\ task[t].cmd = task[u].cmd
          /\ task[t].cmd # "desktop_env_init"
          /\ Responses(t) = Responses(u) )
        => task[t].ret = task[u].ret

StatusFixed ==
    \A t \in Tasks :
        Returned(t, "desktop_env_status") => task[t].ret = Some(Ok(StatusText))

C7_InitHasNoObservableEffect ==
    /\ [](SameResultForSameResponses /\ StatusFixed)
    /\ [][ initialized' # initialized =>
             \E t \in Tasks : /\ task[t].pc = "init_write"
                              /\ task'[t].pc = "init_return" ]_vars

C7_Witness ==
    \E t, u \in Tasks :
        /\ Succeeded(t) /\ Succeeded(u)
        /\ Responses(t) = Responses(u)
        /\ ~task[t].initAtCall
        /\ task[u].initAtCall

\* C8: off macOS both permission commands return Ok(true) at once and start no
\* process; on macOS each starts its one utility, and returns Ok(true) exactly
\* when the utility was started and exited successfully, and Err otherwise.
PermissionCommands ==
    { "request_screen_recording_permission", "request_accessibility_permission" }

Utility(c) ==
    IF c = "request_screen_recording_permission" THEN "system_profiler" ELSE "open"

C8_PermissionByPlatform ==
    \A t \in Tasks : task[t].cmd \in PermissionCommands =>
        /\ task[t].pc # "panicked"
        /\ platform # "macos" =>
             /\ task[t].steps = << >>
             /\ task[t].pc \in { task[t].cmd, "done" }
             /\ task[t].pc = "done" => task[t].ret = Some(Ok(TRUE))
        /\ platform = "macos" =>
             /\ Len(task[t].steps) <= 1
             /\ Calls(t) \in { << >>, << Utility(task[t].cmd) >> }
             /\ task[t].pc = "done" =>
                  /\ Len(task[t].steps) = 1
                  /\ IF /\ LastStep(t).outcome = "ok"
                        /\ Unwrap(task[t].output).success
                       THEN task[t].ret = Some(Ok(TRUE))
                       ELSE ~IsOk(Unwrap(task[t].ret))

C8_Witness ==
    \E t \in Tasks :
        /\ platform = "windows"
        /\ Returned(t, "request_accessibility_permission")
        /\ task[t].steps = << >>
        /\ task[t].ret = Some(Ok(TRUE))

\* C9 (as claimed): a successful desktop_env_system_info returns a positive
\* screen_width and a positive screen_height.
InfoSucceeded(t) ==
    Returned(t, "desktop_env_system_info") /\ IsOk(Unwrap(task[t].ret))

C9_DimensionsPositive ==
    \A t \in Tasks : InfoSucceeded(t) =>
        /\ Value(t).screen_width > 0
        /\ Value(t).screen_height > 0

\* C9 (amended): a successful desktop_env_system_info returns the width and
\* height of the first display's display_info unchanged, zero included, with the
\* build's OS name; it returns Err exactly when the enumeration failed or
\* yielded no display.
C9_DimensionsAsReported ==
    \A t \in Tasks : Returned(t, "desktop_env_system_info") =>
        /\ LastStep(t).outcome = "ok" =>
             /\ IsOk(Unwrap(task[t].ret))
             /\ Value(t).screen_width = Unwrap(task[t].screen).width
             /\ Value(t).screen_height = Unwrap(task[t].screen).height
             /\ Value(t).platform = platform
        /\ LastStep(t).outcome = "error" =>
             \E e \in ProviderErrors :
                task[t].ret = Some(Err(<< "Failed to get screens: ", e >>))
        /\ LastStep(t).outcome = "empty" =>
             task[t].ret = Some(Err(<< "No screen found" >>))

C9_Witness ==
    \E t \in Tasks :
        /\ InfoSucceeded(t)
        /\ Value(t).screen_width = 0
        /\ Value(t).screen_height = MaxDim

\* C10: under every interleaving at most one task holds the guard of
\* AppState.initialized; it is held only between lock() and the return of
\* desktop_env_init, never by a task in a provider or process call; the mutex is
\* never poisoned; and every started desktop_env_init gets the mutex and returns
\* Ok.
Holders == { t \in Tasks : task[t].pc \in { "init_write", "init_return" } }

LockDiscipline ==
    /\ Cardinality(Holders) <= 1
    /\ Holders = { t \in Tasks : lockHolder = t }
    /\ \A t \in Holders : Running(t, "desktop_env_init")
    /\ ~poisoned
    /\ \A t \in Tasks : task[t].pc # "panicked"

====
